---- MODULE Spec2Model ----
(***************************************************************************)
(* Security core of the marketplace backend: the OTP challenge of          *)
(* routes/auth (send-otp, verify-otp), the JWT auth middleware and the     *)
(* access-token helper.  Time is Date.now() in milliseconds.               *)
(***************************************************************************)
EXTENDS Integers, Sequences, FiniteSets, TLC

VARIABLES
    now,        \* Date.now(), milliseconds
    otps,       \* the OTP collection: _id -> document
    nextId,     \* the next _id the store hands out
    sreq,       \* send-otp handlers in flight, one per slot
    vreq,       \* verify-otp handlers in flight, one per slot
    hist,       \* per OTP document: what verify-otp has answered so far
    resp,       \* the response sent last by an OTP route
    jwtSecret,  \* process.env.JWT_SECRET
    issued,     \* access tokens handed out, with the time of issue
    areq,       \* the request the auth middleware handled last, and its outcome
    aticks,     \* clock steps taken while the middleware is exercised
    app,        \* the middleware server.js mounts in front of the routers
    hits,       \* per worker process, limiter and key: the MemoryStore entry
    admitted,   \* per limiter and key: requests admitted since a window began
    lreq,       \* the request the routers handled last, and what happened to it
    users,      \* the User collection: _id -> avatar, favorites, __v
    disk,       \* the files in the upload directories
    ureq,       \* the avatar upload in flight
    presp,      \* the response sent last by a profile route
    sniffed,    \* the paths validateAndSecureImage has found valid
    nextFile,   \* stands for the random part of the next file name
    freq,       \* favorites handlers in flight, one per slot
    accounts,   \* the User collection as the auth routes see it: email -> document
    reply,      \* the response sent last by register, login or an error handler
    notifications,  \* the Notification collection
    call        \* the admin or notifications request in flight

otpVars == <<otps, nextId, sreq, vreq, hist, resp>>
authVars == <<jwtSecret, issued, areq, aticks>>
limitVars == <<app, hits, admitted, lreq>>
uploadVars == <<disk, ureq, sniffed, nextFile>>
profileVars == <<users, presp, uploadVars, freq>>
serviceVars == <<accounts, reply, notifications, call>>
appVars == <<limitVars, profileVars, serviceVars>>
vars == <<now, otps, nextId, sreq, vreq, hist, resp, jwtSecret, issued, areq, aticks,
          app, hits, admitted, lreq, users, disk, ureq, presp, sniffed, nextFile, freq,
          accounts, reply, notifications, call>>

----------------------------------------------------------------------------
(* Bounds of the model *)

IssueSends == 2     \* OtpIssueSpec: send-otp requests that may overlap
IssueVerifies == 1  \* OtpIssueSpec: verify-otp requests that may overlap
IssueRecords == 2   \* OtpIssueSpec: OTP documents ever created
VerifySends == 1    \* OtpVerifySpec: send-otp requests that may overlap
VerifyVerifies == 2 \* OtpVerifySpec: verify-otp requests that may overlap
VerifyRecords == 1  \* OtpVerifySpec: OTP documents ever created
MaxTicks == 2       \* clock steps, each of OtpTtlMs

(* Program constants *)

OtpTtlMs == 600000          \* 10 * 60 * 1000
MaxAttempts == 3
BcryptCost == 10

SendSlots == DOMAIN sreq
VerifySlots == DOMAIN vreq

(* Inputs.  crypto.randomInt(100000, 999999) yields 100000 .. 999998. *)
OtpCodes == {100000, 999998}
Emails == {"a@b.com", "c@d.com"}
BadEmail == "not-an-email"
NoRecord == [id |-> 0, email |-> "", otp |-> 0, expiresAt |-> 0,
             attempts |-> 0, used |-> FALSE]

----------------------------------------------------------------------------
(* Pure helpers *)

\* emailRegex.test(email): local@domain
emailRegexTest(email) == email \in Emails

\* bcrypt.hash(otp, 10): a salted digest that carries its cost; never the input
bcryptHash(s, cost) == cost * 1000000 + s

\* bcrypt.compare(candidate, hash)
bcryptCompare(candidate, hash) == bcryptHash(candidate, hash \div 1000000) = hash

\* defaults of the OTP schema for the fields create() does not pass
OTPSchemaDefaults == [attempts |-> 0, used |-> FALSE]

\* OTP.create({email, otp, expiresAt})
OTPCreate(id, email, hashedOtp, expiresAt) ==
    [id |-> id, email |-> email, otp |-> hashedOtp, expiresAt |-> expiresAt,
     attempts |-> OTPSchemaDefaults.attempts, used |-> OTPSchemaDefaults.used]

\* the documents matched by { email, used: false }
UnusedOf(email) == {id \in DOMAIN otps : otps[id].email = email /\ ~otps[id].used}

\* OTP.deleteMany({ email, used: false })
OTPDeleteMany(email) == [id \in (DOMAIN otps) \ UnusedOf(email) |-> otps[id]]

\* the counters of hist stop counting at their cap
Count(n, cap) == IF n < cap THEN n + 1 ELSE n

\* what verify-otp has done with one document so far
NoHist == [email |-> "", invalid |-> 0, verified |-> 0, terminal |-> FALSE]

IdleSend == [pc |-> "idle", email |-> "", otp |-> 0, hashedOtp |-> 0,
             expiresAt |-> 0, id |-> 0]
IdleVerify == [pc |-> "idle", record |-> NoRecord, isValid |-> FALSE,
               exhaustedAtFind |-> FALSE, terminalAtFind |-> FALSE, newerAtFind |-> FALSE]
NoResp == [route |-> "none", res |-> "none", id |-> 0, email |-> "",
           exhaustedAtFind |-> FALSE, terminalAtFind |-> FALSE, newerAtFind |-> FALSE]

\* res.json(...) of send-otp
SendResp(res, id) == [NoResp EXCEPT !.route = "send-otp", !.res = res, !.id = id]

\* res.json(...) of verify-otp, with what the handler found when it looked
VerifyResp(req, res) ==
    [route |-> "verify-otp", res |-> res, id |-> req.record.id,
     email |-> req.record.email,
     exhaustedAtFind |-> req.exhaustedAtFind,
     terminalAtFind |-> req.terminalAtFind,
     newerAtFind |-> req.newerAtFind]

\* a new request is taken by the first free handler slot
FirstIdle(req, slots) == {k \in slots : req[k].pc = "idle" /\
                            \A j \in slots : j < k => req[j].pc # "idle"}

----------------------------------------------------------------------------
(* JSON Web Tokens and the auth middleware: pure helpers *)

AccessTtlSec == 900         \* expiresIn: '15m'

NoSecret == ""              \* JWT_SECRET not set
ServerSecret == "s3cr3t"
FallbackSecret == "fallback_jwt_secret"
AuthKeys == {ServerSecret, FallbackSecret, "attacker-key"}
HSAlgs == {"HS256", "HS384", "HS512"}
AuthAlgs == {"HS256", "HS384", "none"}

Users == {[id |-> "u1", role |-> "customer"], [id |-> "u2", role |-> "admin"]}
NoUser == [id |-> "", role |-> ""]
NoExp == -1                 \* a payload without an exp claim
NoPayload == [id |-> "", role |-> "", user |-> NoUser, iat |-> 0, exp |-> NoExp]
NoSig == [alg |-> "", key |-> "", payload |-> NoPayload]
\* the empty string where a token is expected
NoToken == [parts |-> 0, alg |-> "", payload |-> NoPayload, sig |-> NoSig]
\* a non-empty string that is not header.payload.signature
MalformedToken == [NoToken EXCEPT !.parts = 1]

\* Math.floor(Date.now() / 1000)
ClockTimestamp(t) == t \div 1000

\* the HMAC of header and payload under a key
HmacSign(alg, key, payload) == [alg |-> alg, key |-> key, payload |-> payload]

\* a three-part token; alg 'none' carries an empty signature
MakeToken(alg, key, payload) ==
    [parts |-> 3, alg |-> alg, payload |-> payload,
     sig |-> IF alg = "none" THEN NoSig ELSE HmacSign(alg, key, payload)]

\* jwt.sign(payload, secret, { expiresIn }): HS256, iat and exp in seconds;
\* throws when the secret has no value
jwtSign(payload, secret, expiresIn, t) ==
    IF secret = NoSecret
    THEN [ok |-> FALSE, token |-> NoToken]
    ELSE [ok |-> TRUE,
          token |-> MakeToken("HS256", secret,
                              [payload EXCEPT !.iat = ClockTimestamp(t),
                                              !.exp = ClockTimestamp(t) + expiresIn])]

\* signAccessToken with the seven days of the older routes
signAccessTokenSevenDays(user, secret, t) ==
    jwtSign([NoPayload EXCEPT !.id = user.id, !.role = user.role],
            secret, 7 * 24 * 60 * 60, t)

\* signAccessToken(user)
signAccessToken(user, secret, t) ==
    jwtSign([NoPayload EXCEPT !.id = user.id, !.role = user.role],
            secret, AccessTtlSec, t)

\* the older login / register routes: jwt.sign({ user: { id, role } },
\* process.env.JWT_SECRET || 'fallback_jwt_secret', { expiresIn: '7d' })
UserTtlSec == 7 * 24 * 60 * 60
signUserToken(user, secret, t) ==
    jwtSign([NoPayload EXCEPT !.user = [id |-> user.id, role |-> user.role]],
            IF secret = NoSecret THEN FallbackSecret ELSE secret, UserTtlSec, t)

\* jwt.verify that reports a passed expiry as any other verification error
jwtVerifyCollapsed(token, secret, algorithms, t) ==
    IF \/ token.parts # 3
       \/ token.sig = NoSig
       \/ token.alg \notin algorithms
       \/ token.sig # HmacSign(token.alg, secret, token.payload)
       \/ (token.payload.exp # NoExp /\ ClockTimestamp(t) >= token.payload.exp)
    THEN [ok |-> FALSE, err |-> "JsonWebTokenError", decoded |-> NoPayload]
    ELSE [ok |-> TRUE, err |-> "", decoded |-> token.payload]

\* jwt.verify(token, secret, { algorithms }), in the order of its checks
jwtVerify(token, secret, algorithms, t) ==
    IF token.parts # 3
    THEN [ok |-> FALSE, err |-> "JsonWebTokenError", decoded |-> NoPayload]
    ELSE IF token.sig = NoSig
    THEN [ok |-> FALSE, err |-> "JsonWebTokenError", decoded |-> NoPayload]
    ELSE IF token.alg \notin algorithms
    THEN [ok |-> FALSE, err |-> "JsonWebTokenError", decoded |-> NoPayload]
    ELSE IF token.sig # HmacSign(token.alg, secret, token.payload)
    THEN [ok |-> FALSE, err |-> "JsonWebTokenError", decoded |-> NoPayload]
    ELSE IF token.payload.exp # NoExp /\ ClockTimestamp(t) >= token.payload.exp
    THEN [ok |-> FALSE, err |-> "TokenExpiredError", decoded |-> NoPayload]
    ELSE [ok |-> TRUE, err |-> "", decoded |-> token.payload]

(* The Authorization header is the string scheme ++ gap spaces ++ cred,    *)
(* cred being a token without spaces; NoHeader is the absent header.       *)
NoHeader == [present |-> FALSE, scheme |-> "", gap |-> 0, cred |-> NoToken]
Header(scheme, gap, cred) ==
    [present |-> TRUE, scheme |-> scheme, gap |-> gap, cred |-> cred]

\* !authHeader
HeaderFalsy(h) == ~h.present \/ (h.scheme = "" /\ h.gap = 0 /\ h.cred = NoToken)

\* authHeader.startsWith('Bearer ')
StartsWithBearer(h) == h.present /\ h.scheme = "Bearer" /\ h.gap >= 1

\* authHeader.split(' ')[1]
SplitToken(h) == IF h.gap = 1 THEN h.cred ELSE NoToken

\* req.header('Authorization')?.replace('Bearer ', ''): what is left is a
\* token only if nothing but the token is left
ReplaceBearer(h) ==
    IF ~h.present THEN NoToken
    ELSE IF h.scheme = "Bearer" /\ h.gap = 1 THEN h.cred
    ELSE IF h.scheme = "" /\ h.gap = 0 THEN h.cred
    ELSE MalformedToken

Outcome(status, code, next, user) ==
    [status |-> status, code |-> code, next |-> next, user |-> user]

\* auth(req, res, next), first definition
auth(h, secret, t) ==
    IF HeaderFalsy(h) \/ ~StartsWithBearer(h)
    THEN Outcome(401, "AUTH_HEADER_MISSING", FALSE, NoPayload)
    ELSE IF SplitToken(h) = NoToken
    THEN Outcome(401, "TOKEN_MISSING", FALSE, NoPayload)
    ELSE IF secret = NoSecret
    THEN Outcome(500, "", FALSE, NoPayload)
    ELSE LET v == jwtVerify(SplitToken(h), secret, {"HS256"}, t)
         IN  IF v.ok THEN Outcome(200, "", TRUE, v.decoded)
             ELSE IF v.err = "TokenExpiredError"
             THEN Outcome(401, "TOKEN_EXPIRED", FALSE, NoPayload)
             ELSE Outcome(401, "TOKEN_INVALID", FALSE, NoPayload)

\* auth(req, res, next), second definition: fallback secret, no algorithm
\* list (jwt.verify then takes the HMAC family), req.user = decoded.user
authSecond(h, secret, t) ==
    IF ReplaceBearer(h) = NoToken
    THEN Outcome(401, "", FALSE, NoPayload)
    ELSE LET key == IF secret = NoSecret THEN FallbackSecret ELSE secret
             v == jwtVerify(ReplaceBearer(h), key, HSAlgs, t)
         IN  IF v.ok
             THEN Outcome(200, "", TRUE,
                          [NoPayload EXCEPT !.id = v.decoded.user.id,
                                            !.role = v.decoded.user.role])
             ELSE Outcome(401, "", FALSE, NoPayload)

NoAuthReq == [def |-> 0, time |-> 0, header |-> NoHeader,
              out |-> Outcome(0, "", FALSE, NoPayload)]

----------------------------------------------------------------------------
(* express-rate-limit in front of the routers: pure helpers.  Each limiter *)
(* keeps a MemoryStore of its own in every worker process.                 *)

LimitWorkers == 2   \* worker processes of the cluster
MaxOver == 2        \* requests followed beyond the max of a limiter
MaxLimitTicks == 2  \* clock steps while the limiters are exercised

Workers == 1 .. LimitWorkers

\* req.ip: an IPv4 address and two IPv6 addresses of one /64
Ips == {[v |-> 4, addr |-> "203.0.113.7", net |-> [b \in {56, 64} |-> ""]],
        [v |-> 6, addr |-> "2001:db8:0:1::a",
         net |-> [b \in {56, 64} |->
                    IF b = 56 THEN "2001:db8::/56" ELSE "2001:db8:0:1::/64"]],
        [v |-> 6, addr |-> "2001:db8:0:1::b",
         net |-> [b \in {56, 64} |->
                    IF b = 56 THEN "2001:db8::/56" ELSE "2001:db8:0:1::/64"]]}

\* ipKeyGenerator(ip, subnet): the address, an IPv6 address cut to its subnet
ipKeyGenerator(ip, subnet) ==
    [kind |-> "ip", id |-> IF ip.v = 4 THEN ip.addr ELSE ip.net[subnet]]

\* the key generator of express-rate-limit when the options name none
defaultKeyGenerator(req) == ipKeyGenerator(req.ip, 56)

\* secureKeyGenerator(req); authKeyGenerator and talentKeyGenerator read the same
secureKeyGenerator(req) ==
    IF req.user # NoPayload /\ req.user.id # ""
    THEN [kind |-> "user", id |-> req.user.id]
    ELSE ipKeyGenerator(req.ip, 64)

LimitKeys ==
    {[kind |-> "user", id |-> u.id] : u \in Users}
      \cup {ipKeyGenerator(ip, b) : ip \in Ips, b \in {56, 64}}

\* the limiters, as configured
Limiter(name, windowMs, max, keyGenerator) ==
    [kind |-> "limit", name |-> name, windowMs |-> windowMs, max |-> max,
     keyGenerator |-> keyGenerator]
globalLimiter == Limiter("globalLimiter", 15 * 60 * 1000, 400, "default")
authLimiter == Limiter("authLimiter", 15 * 60 * 1000, 8, "secure")
globalApiLimiter == Limiter("globalApiLimiter", 15 * 60 * 1000, 400, "secure")
sensitiveLimiter == Limiter("sensitiveLimiter", 10 * 60 * 1000, 50, "secure")
apiLimiter == Limiter("apiLimiter", 60 * 1000, 60, "default")
talentListLimiter == Limiter("talentListLimiter", 60 * 1000, 45, "secure")
Limiters == {globalLimiter, authLimiter, globalApiLimiter, sensitiveLimiter,
             apiLimiter, talentListLimiter}

\* the auth middleware as a stage of a route
AuthStage == [kind |-> "auth", name |-> "auth", windowMs |-> 0, max |-> 0,
              keyGenerator |-> ""]

\* what server.js mounts in front of every router
AppWithLimiter == <<globalLimiter>>
AppPlain == <<>>

\* the middleware of a route, router.use first; the handler follows it
LoginRoute == [name |-> "POST /api/auth/login", stages |-> <<authLimiter>>]
ProfileRoute == [name |-> "GET /api/profile",
                 stages |-> <<globalApiLimiter, AuthStage, sensitiveLimiter>>]
PostRoute == [name |-> "POST /api/post", stages |-> <<apiLimiter, AuthStage>>]
TalentRoute == [name |-> "GET /api/talent", stages |-> <<talentListLimiter>>]
NotificationsRoute == [name |-> "GET /api/notifications", stages |-> <<AuthStage>>]
Routes == {LoginRoute, ProfileRoute, PostRoute, TalentRoute, NotificationsRoute}

\* an entry of a MemoryStore: totalHits and resetTime; NoCell is no entry
NoCell == [totalHits |-> 0, resetTime |-> 0]

\* MemoryStore.increment(key): a new window when the old one is over
MemoryStoreIncrement(cell, windowMs, t) ==
    LET c == IF cell.resetTime <= t
             THEN [totalHits |-> 0, resetTime |-> t + windowMs]
             ELSE cell
    IN  [c EXCEPT !.totalHits = @ + 1]

\* the Retry-After header: Math.max(0, Math.ceil((resetTime - Date.now()) / 1000))
RetryAfter(resetTime, t) ==
    IF resetTime - t <= 0 THEN 0 ELSE (resetTime - t + 999) \div 1000

\* a request on its way through the middleware of one worker
StartRequest(store, ip, h) ==
    [store |-> store, ip |-> ip, header |-> h, user |-> NoPayload, met |-> {},
     verified |-> FALSE, handler |-> FALSE, status |-> 0]

\* the middleware rateLimit(options) returns: count, then 429 or next()
RateLimit(l, st, t) ==
    LET key == IF l.keyGenerator = "secure" THEN secureKeyGenerator(st)
               ELSE defaultKeyGenerator(st)
        cell == MemoryStoreIncrement(st.store[l.name][key], l.windowMs, t)
        over == cell.totalHits > l.max
    IN  [st EXCEPT !.store[l.name][key] = cell,
                   !.status = IF over THEN 429 ELSE 0,
                   !.met = @ \cup {[limiter |-> l.name, key |-> key,
                                    windowMs |-> l.windowMs, max |-> l.max,
                                    totalHits |-> cell.totalHits,
                                    admitted |-> ~over,
                                    retryAfter |-> IF over
                                                   THEN RetryAfter(cell.resetTime, t)
                                                   ELSE 0]}]

\* auth as a stage: req.user is set when next() is called; the token is
\* verified unless the header or the configuration ends the request before
AuthMiddleware(st, secret, t) ==
    LET out == auth(st.header, secret, t)
    IN  [st EXCEPT !.verified = out.next \/ out.code \in {"TOKEN_EXPIRED", "TOKEN_INVALID"},
                   !.user = IF out.next THEN out.user ELSE NoPayload,
                   !.status = IF out.next THEN 0 ELSE out.status]

\* express calls the stages in order until one of them answers
RECURSIVE Pipeline(_, _, _, _, _)
Pipeline(stages, i, st, secret, t) ==
    IF st.status # 0 THEN st
    ELSE IF i > Len(stages) THEN [st EXCEPT !.handler = TRUE, !.status = 200]
    ELSE Pipeline(stages, i + 1,
                  IF stages[i].kind = "auth"
                  THEN AuthMiddleware(st, secret, t)
                  ELSE RateLimit(stages[i], st, t),
                  secret, t)

NoLimitReq == [n |-> 0, worker |-> 0, route |-> "", ip |-> "", identity |-> "",
               time |-> 0, met |-> {}, verified |-> FALSE, handler |-> FALSE,
               status |-> 0]

\* requests seen and requests admitted for a key since its window began
NoWindow == [from |-> 0, seen |-> 0, ok |-> 0]

\* no limiter and no router in use
LimitIdle ==
    /\ app = AppPlain
    /\ hits = <<>>
    /\ admitted = <<>>
    /\ lreq = NoLimitReq

----------------------------------------------------------------------------
(* The profile routes: avatar upload, profile update, favorites.  Pure     *)
(* helpers.                                                                *)

MaxUploads == 2     \* files staged by multer

MAX_FILE_SIZE == 3 * 1024 * 1024
ALLOWED_IMAGE_MIMES == {"image/jpeg", "image/jpg", "image/png", "image/webp", "image/gif"}

\* no file in the request
NoFile == [name |-> 0, ext |-> "", mimetype |-> "", content |-> "", size |-> 0]

\* the files a caller sends: the extension of originalname, the declared
\* Content-Type, the leading bytes and the length
Files ==
    {[name |-> 0, ext |-> e, mimetype |-> m, content |-> c, size |-> z] :
        e \in {".png", ".php"}, m \in {"image/png", "application/x-php"},
        c \in {"png", "php"}, z \in {1024, MAX_FILE_SIZE + 1}}

\* fileFilter: the extension of originalname against the allow-list
fileFilter(file) == file.ext \in {".jpg", ".jpeg", ".png", ".webp", ".gif"}

\* fileFilter of the first version: file.mimetype.startsWith('image/')
fileFilterFirst(file) == file.mimetype \in {"image/png", "image/jpeg", "image/svg+xml"}

\* fileType.fromFile(path): the type the leading bytes show, if any
fileTypeFromFile(file) ==
    CASE file.content = "png" -> "image/png"
      [] file.content = "jpeg" -> "image/jpeg"
      [] OTHER -> ""

\* validateAndSecureImage(filePath).valid
validateAndSecureImage(file) ==
    /\ fileTypeFromFile(file) \in ALLOWED_IMAGE_MIMES
    /\ file.size <= MAX_FILE_SIZE

\* the avatar URL stored for a staged file
AvatarUrl(version, file) ==
    [dir |-> IF version = 2 THEN "/uploads/avatars/" ELSE "/uploads/", name |-> file.name]
NoAvatar == [dir |-> "", name |-> 0]

\* an account as created, and the ids valid tokens carry; the store holds
\* u1 only
NewUser == [avatar |-> NoAvatar, favorites |-> <<>>, v |-> 0]
TokenIds == {u.id : u \in Users}

IdleUpload == [pc |-> "idle", version |-> 0, user |-> "", file |-> NoFile]

\* a string where an ObjectId is expected: 24 hex digits in lower or upper
\* case naming a post, or no hex string at all
NoPostId == [hex |-> FALSE, id |-> "", upper |-> FALSE]
PostIds == {[hex |-> TRUE, id |-> i, upper |-> up] :
               i \in {"p1", "p2", "p9"}, up \in BOOLEAN} \cup {NoPostId}

\* the posts of the Post collection
Posts == {"p1", "p2"}

\* param('postId').isMongoId(): 24 hexadecimal digits of either case
isMongoId(str) == str.hex

\* ObjectId.toString(): lower-case hex
ObjectIdToString(oid) == [hex |-> TRUE, id |-> oid, upper |-> FALSE]

\* the cast of a string to ObjectId, which reads either case
CastObjectId(str) == str.id

\* user.favorites.indexOf(postId), 0 for -1: a string is compared with each
\* element by ==, that is with the element's toString()
FavoritesIndexOf(favorites, str) ==
    IF \E i \in 1 .. Len(favorites) : ObjectIdToString(favorites[i]) = str
    THEN CHOOSE i \in 1 .. Len(favorites) :
            /\ ObjectIdToString(favorites[i]) = str
            /\ \A j \in 1 .. (i - 1) : ObjectIdToString(favorites[j]) # str
    ELSE 0

IdleFavorite == [pc |-> "idle", user |-> "", postId |-> NoPostId,
                 favorites |-> <<>>, v |-> 0]

\* a response of a profile route; seq tells two equal responses of the
\* favorites routes apart
NoProfileResp == [route |-> "", version |-> 0, status |-> 0, file |-> NoFile,
                  user |-> "", postId |-> NoPostId, seq |-> 0]
FavoriteResp(route, status, user, postId) ==
    [NoProfileResp EXCEPT !.route = route, !.status = status, !.user = user,
                          !.postId = postId, !.seq = 1 - presp.seq]

\* the store as seeded, and no profile request in flight
ProfileIdle ==
    /\ users = [id \in {"u1"} |-> NewUser]
    /\ disk = {}
    /\ ureq = IdleUpload
    /\ presp = NoProfileResp
    /\ freq = <<>>
    /\ sniffed = {}
    /\ nextFile = 1

----------------------------------------------------------------------------
(* Register and login, the error handlers, the admin and notification     *)
(* routes: pure helpers                                                    *)

SALT_ROUNDS == 12

\* req.body.password.  str: a JSON string (not a number); head names the
\* first 72 bytes, tail what follows them (0: nothing); len6 and rules: at
\* least 6 characters, and at least 8 with a digit and an upper-case letter
NoPassword == [str |-> FALSE, head |-> 0, tail |-> 0, len6 |-> FALSE, rules |-> FALSE]
Passwords ==
    {[str |-> TRUE, head |-> 1, tail |-> 0, len6 |-> TRUE, rules |-> TRUE],
     [str |-> TRUE, head |-> 2, tail |-> 1, len6 |-> TRUE, rules |-> TRUE],
     [str |-> TRUE, head |-> 2, tail |-> 2, len6 |-> TRUE, rules |-> TRUE],
     [str |-> TRUE, head |-> 3, tail |-> 0, len6 |-> TRUE, rules |-> FALSE],
     [str |-> FALSE, head |-> 4, tail |-> 0, len6 |-> FALSE, rules |-> FALSE],
     NoPassword}

\* a value of the credential field: a string that is a password (layers 0)
\* or a bcrypt hash of such a string
PasswordString(p) == [layers |-> 0, cost |-> 0, head |-> p.head, tail |-> p.tail]
NoCredential == [layers |-> 0, cost |-> 0, head |-> 0, tail |-> 0]

\* bcrypt.hash(s, cost) of bcryptjs: reads the first 72 bytes of s
bcryptHashString(s, cost) ==
    [layers |-> s.layers + 1, cost |-> cost, head |-> s.head, tail |-> 0]

\* bcrypt.compare(s, hash) of bcryptjs: rejects ("Illegal arguments") unless
\* both are strings
bcryptCompareString(p, hash) ==
    IF ~p.str THEN [ok |-> FALSE, isMatch |-> FALSE]
    ELSE [ok |-> TRUE,
          isMatch |-> hash.layers > 0 /\
                      bcryptHashString(PasswordString(p), hash.cost) = hash]

\* body('email').trim().isEmail().normalizeEmail() and email.toLowerCase()
MixedEmail == "A@b.com"
AccountEmails == {"a@b.com", MixedEmail, BadEmail}
isEmail(email) == email # BadEmail
normalizeEmail(email) == IF email = MixedEmail THEN "a@b.com" ELSE email

\* res.status(status).json({ message, stack }); touched: what the handler
\* used on the way (store reads and writes, the token secret); seq tells two
\* equal responses apart
NoStack == ""
NoError == [message |-> "", status |-> 0, stack |-> NoStack]
NoReply == [route |-> "", version |-> 0, status |-> 0, message |-> "",
            stack |-> NoStack, email |-> "", password |-> NoPassword,
            cookie |-> NoToken, touched |-> {}, seq |-> 0,
            env |-> "", err |-> NoError]

\* the errors handed to the global error handler; status 0: err.status is
\* undefined, message "": err.message is empty
Errors ==
    {[message |-> m, status |-> st, stack |-> "Error at Object.<anonymous>"] :
        m \in {"", "connect ECONNREFUSED 127.0.0.1:27017", "Not allowed by CORS"},
        st \in {0, 400, 500, 503}}

\* process.env.NODE_ENV; "" is unset
Envs == {"production", "development", ""}

\* app.use((err, req, res, next) => ...): version 1 answers err.message,
\* version 2 a fixed message for status 500 and the stack in development
errorHandler(version, env, err) ==
    IF version = 1
    THEN [status |-> 500,
          message |-> IF err.message # "" THEN err.message
                      ELSE "Internal Server Error",
          stack |-> NoStack]
    ELSE LET status == IF err.status # 0 THEN err.status ELSE 500
         IN  [status |-> status,
              message |-> IF status = 500 THEN "Internal Server Error"
                          ELSE err.message,
              stack |-> IF env = "development" THEN err.stack ELSE NoStack]
Reply(route, version, status, message, email, password, cookie, touched) ==
    [NoReply EXCEPT !.route = route, !.version = version, !.status = status,
                    !.message = message, !.email = email,
                    !.password = password, !.cookie = cookie,
                    !.touched = touched, !.seq = 1 - reply.seq]

\* a segment of a request path: a literal text or the hex string of an
\* ObjectId (oid 0: the text is no ObjectId)
Segment(text, oid) == [text |-> text, oid |-> oid]
NoPath == Segment("", 0)

IdleCall == [pc |-> "idle", route |-> "", def |-> 0, header |-> NoHeader,
             path |-> NoPath, user |-> "", responses |-> 0, status |-> 0]

ServiceIdle ==
    /\ accounts = <<>>
    /\ reply = NoReply
    /\ notifications = {}
    /\ call = IdleCall

----------------------------------------------------------------------------
\* an empty collection and no request in flight
OtpInit(sends, verifies, records) ==
    /\ now = 0
    /\ otps = <<>>
    /\ nextId = 1
    /\ sreq = [s \in 1 .. sends |-> IdleSend]
    /\ vreq = [v \in 1 .. verifies |-> IdleVerify]
    /\ hist = [id \in 1 .. records |-> NoHist]
    /\ resp = NoResp
    /\ jwtSecret = ServerSecret
    /\ issued = {}
    /\ areq = NoAuthReq
    /\ aticks = 0
    /\ LimitIdle
    /\ ProfileIdle
    /\ ServiceIdle

\* the model stops issuing once `records` documents exist or are on their way
RecordsLeft(records) ==
    nextId + Cardinality({t \in SendSlots : sreq[t].pc = "create"}) <= records

\* POST /send-otp with an address the regex rejects: 400, nothing else
SendOtpInvalid(email) ==
    /\ ~emailRegexTest(email)
    /\ resp' = SendResp("Please include a valid email address", 0)
    /\ UNCHANGED <<now, otps, nextId, sreq, vreq, hist, authVars, appVars>>

\* POST /send-otp: the code, its hash and the expiry are fixed, then
\* await OTP.deleteMany({ email, used: false })
SendOtpDeleteMany(s, email, code) ==
    /\ s \in FirstIdle(sreq, SendSlots)
    /\ emailRegexTest(email)
    /\ otps' = OTPDeleteMany(email)
    /\ sreq' = [sreq EXCEPT ![s] =
                  [pc |-> "create", email |-> email, otp |-> code,
                   hashedOtp |-> bcryptHash(code, BcryptCost),
                   expiresAt |-> now + OtpTtlMs, id |-> 0]]
    /\ UNCHANGED <<now, nextId, vreq, hist, resp, authVars, appVars>>

\* await OTP.create({ email, otp: hashedOtp, expiresAt })
SendOtpCreate(s) ==
    /\ sreq[s].pc = "create"
    /\ otps' = [id \in (DOMAIN otps) \cup {nextId} |->
                  IF id = nextId
                  THEN OTPCreate(nextId, sreq[s].email, sreq[s].hashedOtp,
                                 sreq[s].expiresAt)
                  ELSE otps[id]]
    /\ nextId' = nextId + 1
    /\ sreq' = [sreq EXCEPT ![s].pc = "mail", ![s].id = nextId]
    /\ hist' = [hist EXCEPT ![nextId].email = sreq[s].email]
    /\ UNCHANGED <<now, vreq, resp, authVars, appVars>>

\* SendOtpMail with a catch block that rolls the new document back
SendOtpMailRollback(s) ==
    /\ sreq[s].pc = "mail"
    /\ sreq' = [sreq EXCEPT ![s] = IdleSend]
    /\ resp' = SendResp("Server error", sreq[s].id)
    /\ otps' = [id \in (DOMAIN otps) \ {sreq[s].id} |-> otps[id]]
    /\ UNCHANGED <<now, nextId, vreq, hist, authVars, appVars>>

\* nodemailer.createTransporter is not a function of nodemailer: the call
\* throws, the catch block answers 500 and the store is not touched again
SendOtpMail(s) ==
    /\ sreq[s].pc = "mail"
    /\ sreq' = [sreq EXCEPT ![s] = IdleSend]
    /\ resp' = SendResp("Server error", sreq[s].id)
    /\ UNCHANGED <<now, otps, nextId, vreq, hist, authVars, appVars>>

\* VerifyOtpFindOne with the attempts check ahead of the expiry check
VerifyOtpFindOneAttemptsFirst(v, email, otp) ==
    /\ v \in FirstIdle(vreq, VerifySlots)
    /\ IF UnusedOf(email) = {}
       THEN /\ resp' = VerifyResp([IdleVerify EXCEPT !.record.email = email],
                                 "OTP not found")
            /\ UNCHANGED <<vreq, hist>>
       ELSE \E id \in UnusedOf(email) :
              LET record == otps[id]
                  isValid == bcryptCompare(otp, record.otp)
                  req == [pc |-> "save",
                          record |-> IF isValid
                                     THEN [record EXCEPT !.used = TRUE]
                                     ELSE [record EXCEPT !.attempts = @ + 1],
                          isValid |-> isValid,
                          exhaustedAtFind |-> hist[id].invalid >= MaxAttempts,
                          terminalAtFind |-> hist[id].terminal,
                          newerAtFind |-> \E j \in (id + 1) .. (nextId - 1) :
                                             hist[j].email = email]
              IN  IF record.attempts >= MaxAttempts
                  THEN /\ resp' = VerifyResp(req, "Too many attempts")
                       /\ hist' = [hist EXCEPT ![id].terminal = TRUE]
                       /\ vreq' = vreq
                  ELSE IF record.expiresAt < now
                  THEN /\ resp' = VerifyResp(req, "OTP expired")
                       /\ hist' = [hist EXCEPT ![id].terminal = TRUE]
                       /\ vreq' = vreq
                  ELSE /\ vreq' = [vreq EXCEPT ![v] = req]
                       /\ hist' = hist
                       /\ resp' = resp
    /\ UNCHANGED <<now, otps, nextId, sreq, authVars, appVars>>

\* POST /verify-otp: findOne({ email, used: false }), the three checks that
\* follow it, bcrypt.compare and the change made to the in-memory document
\* before save() is called
VerifyOtpFindOne(v, email, otp) ==
    /\ v \in FirstIdle(vreq, VerifySlots)
    /\ IF UnusedOf(email) = {}
       THEN /\ resp' = VerifyResp([IdleVerify EXCEPT !.record.email = email],
                                 "OTP not found")
            /\ UNCHANGED <<vreq, hist>>
       ELSE \E id \in UnusedOf(email) :
              LET record == otps[id]
                  isValid == bcryptCompare(otp, record.otp)
                  req == [pc |-> "save",
                          record |-> IF isValid
                                     THEN [record EXCEPT !.used = TRUE]
                                     ELSE [record EXCEPT !.attempts = @ + 1],
                          isValid |-> isValid,
                          exhaustedAtFind |-> hist[id].invalid >= MaxAttempts,
                          terminalAtFind |-> hist[id].terminal,
                          newerAtFind |-> \E j \in (id + 1) .. (nextId - 1) :
                                             hist[j].email = email]
              IN  IF record.expiresAt < now
                  THEN /\ resp' = VerifyResp(req, "OTP expired")
                       /\ hist' = [hist EXCEPT ![id].terminal = TRUE]
                       /\ vreq' = vreq
                  ELSE IF record.attempts >= MaxAttempts
                  THEN /\ resp' = VerifyResp(req, "Too many attempts")
                       /\ hist' = [hist EXCEPT ![id].terminal = TRUE]
                       /\ vreq' = vreq
                  ELSE /\ vreq' = [vreq EXCEPT ![v] = req]
                       /\ hist' = hist
                       /\ resp' = resp
    /\ UNCHANGED <<now, otps, nextId, sreq, authVars, appVars>>

\* await record.save(): an update of the one modified path, filtered by _id;
\* it fails (DocumentNotFoundError, answered 500) when the document is gone
VerifyOtpSave(v) ==
    /\ vreq[v].pc = "save"
    /\ vreq' = [vreq EXCEPT ![v] = IdleVerify]
    /\ LET id == vreq[v].record.id
       IN  IF id \notin DOMAIN otps
           THEN /\ resp' = VerifyResp(vreq[v], "Server error")
                /\ UNCHANGED <<otps, hist>>
           ELSE IF vreq[v].isValid
           THEN /\ otps' = [otps EXCEPT ![id].used = TRUE]
                /\ resp' = VerifyResp(vreq[v], "OTP verified successfully")
                /\ hist' = [hist EXCEPT ![id].verified = Count(@, 2),
                                        ![id].terminal = TRUE]
           ELSE /\ otps' = [otps EXCEPT ![id].attempts = vreq[v].record.attempts]
                /\ resp' = VerifyResp(vreq[v], "Invalid OTP")
                /\ hist' = [hist EXCEPT ![id].invalid = Count(@, MaxAttempts)]
    /\ UNCHANGED <<now, nextId, sreq, authVars, appVars>>

\* time passes
OtpTick ==
    /\ now < MaxTicks * OtpTtlMs
    /\ now' = now + OtpTtlMs
    /\ UNCHANGED <<otpVars, authVars, appVars>>

OtpNext(records) ==
    \/ SendOtpInvalid(BadEmail)
    \/ \E s \in SendSlots, email \in Emails, code \in OtpCodes :
          RecordsLeft(records) /\ SendOtpDeleteMany(s, email, code)
    \/ \E s \in SendSlots : SendOtpCreate(s)
    \/ \E s \in SendSlots : SendOtpMail(s)
    \/ \E v \in VerifySlots, email \in Emails, otp \in OtpCodes :
          VerifyOtpFindOne(v, email, otp)
    \/ \E v \in VerifySlots : VerifyOtpSave(v)
    \/ OtpTick

\* overlapping send-otp requests, verify-otp one at a time
OtpIssueInit == OtpInit(IssueSends, IssueVerifies, IssueRecords)
OtpIssueNext == OtpNext(IssueRecords)
OtpIssueSpec == OtpIssueInit /\ [][OtpIssueNext]_vars

\* overlapping verify-otp requests on one document
OtpVerifyInit == OtpInit(VerifySends, VerifyVerifies, VerifyRecords)
OtpVerifyNext == OtpNext(VerifyRecords)
OtpVerifySpec == OtpVerifyInit /\ [][OtpVerifyNext]_vars

----------------------------------------------------------------------------
(* The auth middleware in front of the routes *)

MaxTokens == 1      \* access tokens handed out
MaxAuthTicks == 3   \* clock steps

\* the steps the clock takes: half a second, and one second short of the
\* lifetime of an access token
AuthSteps == {500, (AccessTtlSec - 1) * 1000}

\* expiry claims of the tokens a caller makes up: none, passed, or ahead
ForgedExps(t) == {NoExp, ClockTimestamp(t), ClockTimestamp(t) + AccessTtlSec}

\* the tokens a caller can present: the ones handed out and the ones made
\* up with any algorithm and any key the caller may hold
Presentable(t) ==
    {i.token : i \in issued}
      \cup {MalformedToken}
      \cup {MakeToken(alg, key,
                      [NoPayload EXCEPT !.id = "u2", !.role = "admin",
                                        !.user = [id |-> "u2", role |-> "admin"],
                                        !.iat = ClockTimestamp(t), !.exp = exp]) :
               alg \in AuthAlgs, key \in AuthKeys, exp \in ForgedExps(t)}

\* the Authorization headers a caller sends: none, '', 'Bearer', 'Bearer ',
\* 'Bearer <token>', the bare token, and a token in the wrong place
Headers(t) ==
    {NoHeader, Header("", 0, NoToken), Header("Bearer", 0, NoToken),
     Header("Bearer", 1, NoToken)}
      \cup {Header(scheme, gap, MalformedToken) :
               scheme \in {"Bearer", "Basic"}, gap \in 0 .. 2}
      \cup {Header("Bearer", 2, i.token) : i \in issued}
      \cup {Header("Basic", 1, i.token) : i \in issued}
      \cup {Header("Bearer", 1, tok) : tok \in Presentable(t)}
      \cup {Header("", 0, tok) : tok \in Presentable(t)}

AuthInit ==
    /\ now \in {0, 500}
    /\ jwtSecret \in {NoSecret, ServerSecret}
    /\ issued = {}
    /\ areq = NoAuthReq
    /\ aticks = 0
    /\ otps = <<>>
    /\ nextId = 1
    /\ sreq = <<>>
    /\ vreq = <<>>
    /\ hist = <<>>
    /\ resp = NoResp
    /\ LimitIdle
    /\ ProfileIdle
    /\ ServiceIdle

\* login / register hand out signAccessToken(user); nothing is handed out
\* when jwt.sign throws
IssueAccessToken(user) ==
    /\ Cardinality(issued) < MaxTokens
    /\ LET signed == signAccessToken(user, jwtSecret, now)
       IN  /\ signed.ok
           /\ issued' = issued \cup {[token |-> signed.token, at |-> now,
                                      by |-> "signAccessToken", user |-> user]}
    /\ UNCHANGED <<now, otpVars, appVars, jwtSecret, areq, aticks>>

\* login / register of the older routes hand out a token signed inline
IssueUserToken(user) ==
    /\ Cardinality(issued) < MaxTokens
    /\ LET signed == signUserToken(user, jwtSecret, now)
       IN  /\ signed.ok
           /\ issued' = issued \cup {[token |-> signed.token, at |-> now,
                                      by |-> "signUserToken", user |-> user]}
    /\ UNCHANGED <<now, otpVars, appVars, jwtSecret, areq, aticks>>

\* a request passes the first definition of the middleware
Auth(h) ==
    /\ areq = NoAuthReq
    /\ areq' = [def |-> 1, time |-> now, header |-> h,
                out |-> auth(h, jwtSecret, now)]
    /\ UNCHANGED <<now, otpVars, appVars, jwtSecret, issued, aticks>>

\* a request passes the second definition of the middleware
AuthSecond(h) ==
    /\ areq = NoAuthReq
    /\ areq' = [def |-> 2, time |-> now, header |-> h,
                out |-> authSecond(h, jwtSecret, now)]
    /\ UNCHANGED <<now, otpVars, appVars, jwtSecret, issued, aticks>>

\* the request is over
AuthDone ==
    /\ areq # NoAuthReq
    /\ areq' = NoAuthReq
    /\ UNCHANGED <<now, otpVars, appVars, jwtSecret, issued, aticks>>

\* time passes
AuthTick(d) ==
    /\ aticks < MaxAuthTicks
    /\ aticks' = aticks + 1
    /\ now' = now + d
    /\ UNCHANGED <<otpVars, appVars, jwtSecret, issued, areq>>

AuthNext ==
    \/ \E user \in Users : IssueAccessToken(user)
    \/ \E user \in Users : IssueUserToken(user)
    \/ areq = NoAuthReq /\ \E h \in Headers(now) : Auth(h)
    \/ areq = NoAuthReq /\ \E h \in Headers(now) : AuthSecond(h)
    \/ AuthDone
    \/ \E d \in AuthSteps : AuthTick(d)

AuthSpec == AuthInit /\ [][AuthNext]_vars

----------------------------------------------------------------------------
(* The rate limiters in front of the routers *)

MaxRequests == 2    \* RouteSpec: requests followed

\* the callers: no Authorization header, or the token of a user who has
\* just logged in
Callers(t) ==
    {NoHeader} \cup {Header("Bearer", 1, signAccessToken(u, ServerSecret, t).token) :
                        u \in Users}

\* the stores of a worker that has not seen a request
FreshStore == [l \in {m.name : m \in Limiters} |-> [k \in LimitKeys |-> NoCell]]

\* one request, from the first middleware to the response or the handler;
\* every MemoryStore.increment runs to its end before another request's
Request(w, route, ip, h) ==
    LET st == Pipeline(app \o route.stages, 1, StartRequest(hits[w], ip, h),
                       jwtSecret, now)
    IN  /\ \A m \in st.met : m.totalHits <= m.max + MaxOver
        /\ hits' = [hits EXCEPT ![w] = st.store]
        /\ admitted' =
              [l \in DOMAIN admitted |->
                 [k \in LimitKeys |->
                    IF \E m \in st.met : m.limiter = l /\ m.key = k
                    THEN LET m == CHOOSE x \in st.met : x.limiter = l /\ x.key = k
                             g == IF admitted[l][k].seen = 0
                                     \/ now >= admitted[l][k].from + m.windowMs
                                  THEN [NoWindow EXCEPT !.from = now]
                                  ELSE admitted[l][k]
                         IN  [g EXCEPT !.seen = @ + 1,
                                       !.ok = IF m.admitted THEN @ + 1 ELSE @]
                    ELSE admitted[l][k]]]
        /\ lreq' = [n |-> lreq.n + 1, worker |-> w, route |-> route.name,
                    ip |-> ip.addr,
                    identity |-> IF h = NoHeader THEN "" ELSE h.cred.payload.id,
                    time |-> now,
                    met |-> st.met, verified |-> st.verified,
                    handler |-> st.handler, status |-> st.status]
        /\ UNCHANGED <<now, otpVars, authVars, serviceVars, app, profileVars>>

\* time passes
LimitTick(d) ==
    /\ aticks < MaxLimitTicks
    /\ aticks' = aticks + 1
    /\ now' = now + d
    /\ UNCHANGED <<otpVars, jwtSecret, issued, areq, appVars>>

\* one anonymous caller and POST /api/auth/login, on every worker
AnonymousIp == CHOOSE ip \in Ips : ip.v = 4

LimitInit ==
    /\ now = 0
    /\ jwtSecret = ServerSecret
    /\ issued = {}
    /\ areq = NoAuthReq
    /\ aticks = 0
    /\ otps = <<>>
    /\ nextId = 1
    /\ sreq = <<>>
    /\ vreq = <<>>
    /\ hist = <<>>
    /\ resp = NoResp
    /\ app \in {AppPlain, AppWithLimiter}
    /\ hits = [w \in Workers |-> FreshStore]
    /\ admitted = [l \in {m.name : m \in Limiters} |-> [k \in LimitKeys |-> NoWindow]]
    /\ lreq = NoLimitReq
    /\ ProfileIdle
    /\ ServiceIdle

LimitNext ==
    \/ \E w \in Workers : Request(w, LoginRoute, AnonymousIp, NoHeader)
    \/ \E d \in {500, authLimiter.windowMs - 500} : LimitTick(d)

LimitSpec == LimitInit /\ [][LimitNext]_vars

\* the stores of a worker after n requests of user u1 from one address on
\* one route, all at time 0
RECURSIVE Prior(_, _, _)
Prior(n, stages, store) ==
    IF n = 0 THEN store
    ELSE IF n = 1
    THEN LET st == Pipeline(stages, 1,
                            StartRequest(store, AnonymousIp,
                                         Header("Bearer", 1,
                                                signAccessToken(CHOOSE u \in Users : u.id = "u1",
                                                                ServerSecret, 0).token)),
                            ServerSecret, 0)
         IN  IF st.status = 200 THEN st.store ELSE store
    ELSE LET half == Prior(n \div 2, stages, store)
         IN  IF half = store THEN store ELSE Prior(n - (n \div 2), stages, half)

\* the smallest max among the limiters of a route, 0 when it has none
RECURSIVE MinMax(_, _)
MinMax(stages, i) ==
    IF i > Len(stages) THEN 0
    ELSE LET rest == MinMax(stages, i + 1)
         IN  IF stages[i].kind # "limit" THEN rest
             ELSE IF rest = 0 \/ stages[i].max < rest THEN stages[i].max
             ELSE rest

\* every route, callers with and without a token, from three addresses; the
\* first worker has either seen nothing or has just admitted, on one route,
\* as many requests of one caller as the route admits
RouteInit ==
    /\ now = 0
    /\ jwtSecret = ServerSecret
    /\ issued = {}
    /\ areq = NoAuthReq
    /\ aticks = 0
    /\ otps = <<>>
    /\ nextId = 1
    /\ sreq = <<>>
    /\ vreq = <<>>
    /\ hist = <<>>
    /\ resp = NoResp
    /\ app \in {AppPlain, AppWithLimiter}
    /\ \E route \in Routes, full \in BOOLEAN :
          LET stages == app \o route.stages
              store == Prior(IF full THEN MinMax(stages, 1) ELSE 0, stages, FreshStore)
          IN  /\ hits = [w \in Workers |-> IF w = 1 THEN store ELSE FreshStore]
              /\ admitted = [l \in DOMAIN store |->
                               [k \in LimitKeys |->
                                  [from |-> 0, seen |-> store[l][k].totalHits,
                                   ok |-> store[l][k].totalHits]]]
    /\ lreq = NoLimitReq
    /\ ProfileIdle
    /\ ServiceIdle

RouteNext ==
    \E w \in Workers, route \in Routes, ip \in Ips, h \in Callers(now) :
        lreq.n < MaxRequests /\ Request(w, route, ip, h)

RouteSpec == RouteInit /\ [][RouteNext]_vars

----------------------------------------------------------------------------
(* Avatar upload and profile update, in both versions of the profile router *)

\* POST /upload up to the end of upload.single('avatar'): multer applies
\* the file filter, writes the file and removes it again when it passes
\* the size limit; an error goes to the error handler of server.js
Multer(version, user, file) ==
    LET answer(status) ==
           /\ presp' = [NoProfileResp EXCEPT !.route = "upload",
                           !.version = version, !.status = status,
                           !.file = file, !.seq = presp.seq]
           /\ UNCHANGED <<ureq, disk, nextFile>>
    IN  IF file = NoFile THEN answer(400)
        ELSE IF ~(IF version = 2 THEN fileFilter(file) ELSE fileFilterFirst(file))
        THEN answer(500)
        ELSE IF file.size > (IF version = 2 THEN MAX_FILE_SIZE ELSE 5 * 1024 * 1024)
        THEN answer(500)
        ELSE LET staged == [file EXCEPT !.name = nextFile]
             IN  /\ disk' = disk \cup {staged}
                 /\ nextFile' = nextFile + 1
                 /\ ureq' = [pc |-> IF version = 2 THEN "validate" ELSE "link",
                             version |-> version, user |-> user, file |-> staged]
                 /\ presp' = presp

\* POST /upload of an authenticated user, from multer on
UploadMulter(version, user, file) ==
    /\ ureq.pc = "idle"
    /\ nextFile <= MaxUploads
    /\ Multer(version, user, file)
    /\ UNCHANGED <<now, otpVars, authVars, serviceVars, limitVars, users, sniffed, freq>>

\* await validateAndSecureImage(req.file.path); an invalid file is
\* unlinked, with a failure of unlink ignored, and answered 400
UploadValidate(unlinkOk) ==
    /\ ureq.pc = "validate"
    /\ IF validateAndSecureImage(ureq.file)
       THEN /\ sniffed' = sniffed \cup {AvatarUrl(ureq.version, ureq.file)}
            /\ ureq' = [ureq EXCEPT !.pc = "link"]
            /\ UNCHANGED <<disk, presp>>
       ELSE /\ disk' = IF unlinkOk THEN disk \ {ureq.file} ELSE disk
            /\ presp' = [NoProfileResp EXCEPT !.route = "upload",
                            !.version = ureq.version, !.status = 400,
                            !.file = ureq.file, !.seq = presp.seq]
            /\ ureq' = IdleUpload
            /\ sniffed' = sniffed
    /\ UNCHANGED <<now, otpVars, authVars, serviceVars, limitVars, users, nextFile, freq>>

\* await User.findByIdAndUpdate(req.user.id, { avatar }): 500 when it
\* throws, 404 when there is no such user, 200 otherwise; only the second
\* version unlinks the file on the way out
UploadLink(dbOk, unlinkOk) ==
    /\ ureq.pc = "link"
    /\ LET found == dbOk /\ ureq.user \in DOMAIN users
       IN  /\ users' = IF found
                       THEN [users EXCEPT ![ureq.user].avatar =
                                             AvatarUrl(ureq.version, ureq.file)]
                       ELSE users
           /\ disk' = IF ~found /\ ureq.version = 2 /\ unlinkOk
                      THEN disk \ {ureq.file} ELSE disk
           /\ presp' = [NoProfileResp EXCEPT !.route = "upload",
                           !.version = ureq.version,
                           !.status = IF ~dbOk THEN 500 ELSE IF found THEN 200 ELSE 404,
                           !.file = ureq.file, !.seq = presp.seq]
    /\ ureq' = IdleUpload
    /\ UNCHANGED <<now, otpVars, authVars, serviceVars, limitVars, sniffed, nextFile, freq>>

\* PUT /api/profile: the first version copies avatar from the body, the
\* second version takes the listed fields only
PutProfile(version, user, avatar) ==
    /\ LET found == user \in DOMAIN users
       IN  /\ users' = IF found /\ version = 1 /\ avatar # NoAvatar
                       THEN [users EXCEPT ![user].avatar = avatar]
                       ELSE users
           /\ presp' = [NoProfileResp EXCEPT !.route = "put", !.version = version,
                           !.status = IF found THEN 200 ELSE 404,
                           !.seq = presp.seq]
    /\ UNCHANGED <<now, otpVars, authVars, serviceVars, limitVars, uploadVars, freq>>

UploadInit ==
    /\ now = 0
    /\ jwtSecret = ServerSecret
    /\ issued = {}
    /\ areq = NoAuthReq
    /\ aticks = 0
    /\ otps = <<>>
    /\ nextId = 1
    /\ sreq = <<>>
    /\ vreq = <<>>
    /\ hist = <<>>
    /\ resp = NoResp
    /\ LimitIdle
    /\ ProfileIdle
    /\ ServiceIdle

UploadNext ==
    \/ \E version \in {1, 2}, user \in TokenIds, file \in Files \cup {NoFile} :
          UploadMulter(version, user, file)
    \/ \E unlinkOk \in BOOLEAN : UploadValidate(unlinkOk)
    \/ \E dbOk \in BOOLEAN, unlinkOk \in BOOLEAN : UploadLink(dbOk, unlinkOk)
    \/ \E version \in {1, 2}, user \in TokenIds, avatar \in {NoAvatar, [dir |-> "https://evil.example/", name |-> 0]} :
          PutProfile(version, user, avatar)

UploadSpec == UploadInit /\ [][UploadNext]_vars

\* POST /api/profile/upload from the first middleware on: version 2 is
\* router.use(globalApiLimiter), auth, uploadLimiter, upload.single;
\* version 1 is auth, upload.single
uploadLimiter == Limiter("uploadLimiter", 60 * 60 * 1000, 12, "secure")
UploadRoute(version) ==
    [name |-> "POST /api/profile/upload",
     stages |-> IF version = 2 THEN <<globalApiLimiter, AuthStage, uploadLimiter>>
                ELSE <<AuthStage>>]

\* callers of the upload route: no header, a token signed with another
\* key, the tokens of the users
Uploaders(t) ==
    Callers(t) \cup {Header("Bearer", 1, signAccessToken(u, FallbackSecret, t).token) :
                        u \in Users}

UploadRequest(version, ip, h, file) ==
    /\ ureq.pc = "idle"
    /\ nextFile <= MaxUploads
    /\ lreq.n < MaxRequests
    /\ LET st == Pipeline(app \o UploadRoute(version).stages, 1,
                          StartRequest(hits[1], ip, h), jwtSecret, now)
       IN  /\ hits' = [hits EXCEPT ![1] = st.store]
           /\ lreq' = [n |-> lreq.n + 1, worker |-> 1,
                       route |-> UploadRoute(version).name, ip |-> ip.addr,
                       identity |-> IF h = NoHeader THEN "" ELSE h.cred.payload.id,
                       time |-> now, met |-> st.met, verified |-> st.verified,
                       handler |-> st.handler, status |-> st.status]
           /\ IF st.status = 200
              THEN Multer(version, st.user.id, file)
              ELSE /\ presp' = [NoProfileResp EXCEPT !.route = "upload",
                                   !.version = version, !.status = st.status,
                                   !.file = file, !.seq = presp.seq]
                   /\ UNCHANGED <<ureq, disk, nextFile>>
    /\ UNCHANGED <<now, otpVars, authVars, serviceVars, app, admitted, users,
                   sniffed, freq>>

\* the one worker has either seen nothing or has just admitted as many
\* uploads without a file of user u1 as uploadLimiter admits
UploadRouteInit ==
    /\ now = 0
    /\ jwtSecret = ServerSecret
    /\ issued = {}
    /\ areq = NoAuthReq
    /\ aticks = 0
    /\ otps = <<>>
    /\ nextId = 1
    /\ sreq = <<>>
    /\ vreq = <<>>
    /\ hist = <<>>
    /\ resp = NoResp
    /\ app = AppPlain
    /\ \E full \in BOOLEAN :
          hits = <<Prior(IF full THEN uploadLimiter.max ELSE 0, UploadRoute(2).stages,
                         [l \in {"globalApiLimiter", "uploadLimiter"} |->
                            [k \in LimitKeys |-> NoCell]])>>
    /\ admitted = <<>>
    /\ lreq = NoLimitReq
    /\ ProfileIdle
    /\ ServiceIdle

UploadRouteNext ==
    \/ \E version \in {1, 2}, ip \in Ips, h \in Uploaders(now),
          file \in Files \cup {NoFile} : UploadRequest(version, ip, h, file)
    \/ \E unlinkOk \in BOOLEAN : UploadValidate(unlinkOk)
    \/ \E dbOk \in BOOLEAN, unlinkOk \in BOOLEAN : UploadLink(dbOk, unlinkOk)

UploadRouteSpec == UploadRouteInit /\ [][UploadRouteNext]_vars

----------------------------------------------------------------------------
(* Favorites *)

FavSlots == 1       \* favorites requests that may overlap
MaxFavorites == 3   \* length of a favorites list
MaxVersion == 4     \* saves of one user document

\* POST or DELETE /favorites/:postId up to save(): validation, the reads,
\* the checks and the change made to the document in memory
FavoriteFind(f, route, user, postId) ==
    /\ freq[f].pc = "idle"
    /\ \A g \in DOMAIN freq : g < f => freq[g].pc # "idle"
    /\ user \in DOMAIN users =>
          (users[user].v < MaxVersion /\ Len(users[user].favorites) < MaxFavorites)
    /\ LET answer(status) ==
              /\ presp' = FavoriteResp(route, status, user, postId)
              /\ freq' = freq
           favorites == users[user].favorites
           index == FavoritesIndexOf(favorites, postId)
           save(list) ==
              /\ freq' = [freq EXCEPT ![f] =
                            [pc |-> route, user |-> user, postId |-> postId,
                             favorites |-> list, v |-> users[user].v]]
              /\ presp' = presp
       IN  IF ~isMongoId(postId) THEN answer(400)
           ELSE IF user \notin DOMAIN users THEN answer(404)
           ELSE IF route = "add"
           THEN IF CastObjectId(postId) \notin Posts THEN answer(404)
                ELSE IF index # 0 THEN answer(409)
                ELSE save(Append(favorites, CastObjectId(postId)))
           ELSE IF index = 0 THEN answer(409)
                ELSE save(SubSeq(favorites, 1, index - 1)
                            \o SubSeq(favorites, index + 1, Len(favorites)))
    /\ UNCHANGED <<now, otpVars, authVars, serviceVars, limitVars, users, uploadVars>>

\* await user.save(): push is sent as $push, splice as $set of the whole
\* array guarded by __v (VersionError, answered 500); both increment __v
FavoriteSave(f) ==
    /\ freq[f].pc # "idle"
    /\ LET r == freq[f]
           doc == users[r.user]
       IN  IF r.pc = "add"
           THEN /\ users' = [users EXCEPT ![r.user].favorites =
                                             Append(@, r.favorites[Len(r.favorites)]),
                                          ![r.user].v = @ + 1]
                /\ presp' = FavoriteResp(r.pc, 200, r.user, r.postId)
           ELSE IF doc.v = r.v
           THEN /\ users' = [users EXCEPT ![r.user].favorites = r.favorites,
                                          ![r.user].v = @ + 1]
                /\ presp' = FavoriteResp(r.pc, 200, r.user, r.postId)
           ELSE /\ users' = users
                /\ presp' = FavoriteResp(r.pc, 500, r.user, r.postId)
    /\ freq' = [freq EXCEPT ![f] = IdleFavorite]
    /\ UNCHANGED <<now, otpVars, authVars, serviceVars, limitVars, uploadVars>>

FavoritesStart(slots) ==
    /\ now = 0
    /\ jwtSecret = ServerSecret
    /\ issued = {}
    /\ areq = NoAuthReq
    /\ aticks = 0
    /\ otps = <<>>
    /\ nextId = 1
    /\ sreq = <<>>
    /\ vreq = <<>>
    /\ hist = <<>>
    /\ resp = NoResp
    /\ LimitIdle
    /\ users = [id \in {"u1"} |-> NewUser]
    /\ presp = NoProfileResp
    /\ disk = {}
    /\ ureq = IdleUpload
    /\ sniffed = {}
    /\ nextFile = 1
    /\ freq = [f \in 1 .. slots |-> IdleFavorite]
    /\ ServiceIdle

FavoritesInit == FavoritesStart(FavSlots)

FavoritesNext ==
    \/ \E f \in DOMAIN freq, route \in {"add", "remove"}, user \in TokenIds,
          postId \in PostIds : FavoriteFind(f, route, user, postId)
    \/ \E f \in DOMAIN freq : FavoriteSave(f)

FavoritesSpec == FavoritesInit /\ [][FavoritesNext]_vars

\* Overlapping favorites requests, each id in the spelling the API hands out
RaceSlots == 2
CanonicalPostIds == {ObjectIdToString(p) : p \in Posts}

FavoritesRaceInit == FavoritesStart(RaceSlots)

FavoritesRaceNext ==
    \/ \E f \in DOMAIN freq, route \in {"add", "remove"}, postId \in CanonicalPostIds :
          FavoriteFind(f, route, "u1", postId)
    \/ \E f \in DOMAIN freq : FavoriteSave(f)

FavoritesRaceSpec == FavoritesRaceInit /\ [][FavoritesRaceNext]_vars

----------------------------------------------------------------------------
(* Register and login: the routes of part_003 with models/User.js          *)
(* (version 2) and the older routes with the older schema (version 1)      *)

\* the email under which a version of the routes looks an account up
LookupEmail(version, email) == IF version = 2 THEN normalizeEmail(email) ELSE email

\* one version of the routes and of the schema is deployed at a time
Deployed(version) == \A e \in DOMAIN accounts : accounts[e].version = version

\* User.create / user.save(): the document as stored.  plain is not a field
\* of the document; it remembers the password the account was registered with
Account(version, email, credential, password) ==
    [version |-> version, id |-> email, role |-> "customer",
     credential |-> credential, plain |-> password]

\* POST /register
Register(version, email, password, dbUp) ==
    /\ Deployed(version)
    /\ LET e == LookupEmail(version, email)
           answer(status, message, cookie, touched) ==
              reply' = Reply("register", version, status, message, email,
                             password, cookie, touched)
           \* version 2: the pre-save hook hashes the modified passwordHash;
           \* version 1: the route hashes with cost 10
           credential == bcryptHashString(PasswordString(password),
                             IF version = 2 THEN SALT_ROUNDS ELSE BcryptCost)
           token == IF version = 2
                    THEN signAccessToken([id |-> e, role |-> "customer"], jwtSecret, now)
                    ELSE signUserToken([id |-> e, role |-> "customer"], jwtSecret, now)
           invalid == IF version = 2
                      THEN ~isEmail(email) \/ ~password.rules
                      ELSE \/ ~isEmail(email)
                           \/ password = NoPassword
                           \/ (password.str /\ ~password.len6)
       IN  IF invalid
           THEN /\ answer(400, IF version = 2 THEN "Validation failed"
                               ELSE "Please fill in all fields", NoToken, {})
                /\ accounts' = accounts
           ELSE IF ~dbUp
           THEN /\ answer(500, "Server error", NoToken, {"read"})
                /\ accounts' = accounts
           ELSE IF e \in DOMAIN accounts
           THEN /\ answer(IF version = 2 THEN 409 ELSE 400,
                          IF version = 2 THEN "Email already in use"
                          ELSE "User already exists", NoToken, {"read"})
                /\ accounts' = accounts
           ELSE IF ~password.str
           THEN \* version 1 only: bcrypt.hash rejects what is no string
                /\ answer(500, "Server error", NoToken, {"read"})
                /\ accounts' = accounts
           ELSE /\ accounts' = [a \in (DOMAIN accounts) \cup {e} |->
                                  IF a = e
                                  THEN Account(version, e, credential, password)
                                  ELSE accounts[a]]
                /\ IF token.ok
                   THEN answer(IF version = 2 THEN 201 ELSE 200, "success",
                               token.token, {"read", "write", "secret"})
                   ELSE answer(500, "Server error", NoToken,
                               {"read", "write", "secret"})
    /\ UNCHANGED <<now, otpVars, authVars, limitVars, profileVars, notifications, call>>

\* POST /login: the response, as a function of the request and the store
LoginResponse(version, email, password, dbUp) ==
    LET e == LookupEmail(version, email)
        answer(status, message, cookie, touched) ==
           [status |-> status, message |-> message, cookie |-> cookie,
            touched |-> touched]
        denied == IF version = 2 THEN 401 ELSE 400
        cmp == bcryptCompareString(password, accounts[e].credential)
        token == IF version = 2
                 THEN signAccessToken(accounts[e], jwtSecret, now)
                 ELSE signUserToken(accounts[e], jwtSecret, now)
    IN  IF ~isEmail(email) \/ password = NoPassword
        THEN answer(400, IF version = 2 THEN "Invalid input"
                         ELSE "Please fill in all fields", NoToken, {})
        ELSE IF ~dbUp
        THEN answer(500, "Server error", NoToken, {"read"})
        ELSE IF e \notin DOMAIN accounts
        THEN answer(denied, "Invalid credentials", NoToken, {"read"})
        ELSE IF ~cmp.ok
        THEN answer(500, "Server error", NoToken, {"read"})
        ELSE IF ~cmp.isMatch
        THEN answer(denied, "Invalid credentials", NoToken, {"read"})
        ELSE IF token.ok
        THEN answer(200, "success", token.token, {"read", "secret"})
        ELSE answer(500, "Server error", NoToken, {"read", "secret"})

Login(version, email, password, dbUp) ==
    /\ Deployed(version)
    /\ LET r == LoginResponse(version, email, password, dbUp)
       IN  reply' = Reply("login", version, r.status, r.message, email,
                          password, r.cookie, r.touched)
    /\ UNCHANGED <<now, otpVars, authVars, limitVars, profileVars, accounts,
                   notifications, call>>

AccountInit ==
    /\ now = 0
    /\ jwtSecret \in {NoSecret, ServerSecret}
    /\ issued = {}
    /\ areq = NoAuthReq
    /\ aticks = 0
    /\ otps = <<>>
    /\ nextId = 1
    /\ sreq = <<>>
    /\ vreq = <<>>
    /\ hist = <<>>
    /\ resp = NoResp
    /\ LimitIdle
    /\ ProfileIdle
    /\ ServiceIdle

AccountNext ==
    \E version \in {1, 2}, email \in AccountEmails, password \in Passwords,
       dbUp \in BOOLEAN :
        \/ Register(version, email, password, dbUp)
        \/ Login(version, email, password, dbUp)

AccountSpec == AccountInit /\ [][AccountNext]_vars

----------------------------------------------------------------------------
(* The admin routes behind userAuth *)

\* userAuth up to the first await of the callback it hands to auth: auth
\* answers, or calls the callback, which reads req.user.id (a TypeError
\* when the second definition left req.user undefined) and starts
\* User.findById.  The promise of the callback is returned to auth, which
\* drops it: a rejection reaches no catch block and no response is sent
UserAuth(def, h) ==
    /\ call.pc = "idle"
    /\ LET out == IF def = 1 THEN auth(h, jwtSecret, now)
                  ELSE authSecond(h, jwtSecret, now)
           req == [IdleCall EXCEPT !.route = "POST /api/admin/send-notification",
                                   !.def = def, !.header = h]
       IN  call' = IF ~out.next
                   THEN [req EXCEPT !.pc = "done", !.responses = 1,
                                    !.status = out.status]
                   ELSE IF def = 2 /\ out.user.id = ""
                   THEN [req EXCEPT !.pc = "abandoned"]
                   ELSE [req EXCEPT !.pc = "lookup", !.user = out.user.id]
    /\ UNCHANGED <<now, otpVars, authVars, limitVars, profileVars, accounts,
                   reply, notifications>>

\* await User.findById(req.user.id) settles: no user is answered 404, a
\* user lets next() run the route handler, which answers once; a rejected
\* lookup rejects the callback's promise
UserLookup(dbOk) ==
    /\ call.pc = "lookup"
    /\ call' = IF ~dbOk THEN [call EXCEPT !.pc = "abandoned"]
               ELSE IF call.user \notin DOMAIN users
               THEN [call EXCEPT !.pc = "done", !.responses = @ + 1, !.status = 404]
               ELSE [call EXCEPT !.pc = "done", !.responses = @ + 1, !.status = 200]
    /\ UNCHANGED <<now, otpVars, authVars, limitVars, profileVars, accounts,
                   reply, notifications>>

\* the next request
CallOver ==
    /\ call.pc \in {"done", "abandoned"}
    /\ call' = IdleCall
    /\ UNCHANGED <<now, otpVars, authVars, limitVars, profileVars, accounts,
                   reply, notifications>>

UserAuthNext ==
    \/ \E user \in Users : IssueAccessToken(user)
    \/ \E user \in Users : IssueUserToken(user)
    \/ \E def \in {1, 2}, h \in Headers(now) : UserAuth(def, h)
    \/ \E dbOk \in BOOLEAN : UserLookup(dbOk)
    \/ CallOver

UserAuthSpec == AuthInit /\ [][UserAuthNext]_vars

----------------------------------------------------------------------------
(* routes/notifications.js: the DELETE routes *)

MaxNotifications == 3

\* the DELETE routes of the router in the order of their registration
NotificationDeleteRoutes ==
    <<[pattern |-> ":id", handler |-> "DELETE /:id"],
      [pattern |-> "clear-all", handler |-> "DELETE /clear-all"]>>

\* a route path of one segment matches a request path: a parameter takes
\* any segment, a literal only itself
RouteMatches(pattern, segment) ==
    pattern = ":id" \/ (segment.oid = 0 /\ segment.text = pattern)

\* express hands the request to the first registered route that matches
Dispatch(routes, segment) ==
    LET hit == {i \in 1 .. Len(routes) : RouteMatches(routes[i].pattern, segment)}
    IN  IF hit = {} THEN "none"
        ELSE routes[CHOOSE i \in hit : \A j \in hit : i <= j].handler

\* the admin route stores a notification for a user
NotificationSave(id, user) ==
    /\ \A n \in notifications : n.id # id
    /\ notifications' = notifications \cup {[id |-> id, userId |-> user]}
    /\ UNCHANGED <<now, otpVars, authVars, limitVars, profileVars, accounts,
                   reply, call>>

\* an authenticated DELETE /api/notifications/<segment>: findOneAndDelete
\* under /:id (a CastError for a text that is no ObjectId is answered 500),
\* deleteMany under /clear-all
NotificationDelete(user, segment) ==
    /\ LET handler == Dispatch(NotificationDeleteRoutes, segment)
           mine == {n \in notifications : n.id = segment.oid /\ n.userId = user}
           answer(status) ==
              call' = [IdleCall EXCEPT !.pc = "done", !.route = handler,
                                       !.path = segment, !.user = user,
                                       !.responses = 1, !.status = status]
       IN  IF handler = "DELETE /clear-all"
           THEN /\ notifications' = {n \in notifications : n.userId # user}
                /\ answer(200)
           ELSE IF handler = "none"
           THEN /\ notifications' = notifications
                /\ answer(404)
           ELSE IF segment.oid = 0
           THEN /\ notifications' = notifications
                /\ answer(500)
           ELSE /\ notifications' = notifications \ mine
                /\ answer(IF mine = {} THEN 404 ELSE 200)
    /\ UNCHANGED <<now, otpVars, authVars, limitVars, profileVars, accounts, reply>>

NotificationNext ==
    \/ \E id \in 1 .. MaxNotifications, user \in TokenIds : NotificationSave(id, user)
    \/ \E user \in TokenIds,
          segment \in {Segment("clear-all", 0)}
                         \cup {Segment("", id) : id \in 1 .. MaxNotifications} :
            NotificationDelete(user, segment)

NotificationSpec == AccountInit /\ [][NotificationNext]_vars

\* a request that ends in the global error handler of server.js
HandleError(version, env, err) ==
    /\ LET body == errorHandler(version, env, err)
       IN  reply' = [NoReply EXCEPT !.route = "error", !.version = version,
                                    !.status = body.status,
                                    !.message = body.message,
                                    !.stack = body.stack, !.env = env,
                                    !.err = err, !.seq = 1 - reply.seq]
    /\ UNCHANGED <<now, otpVars, authVars, limitVars, profileVars, accounts,
                   notifications, call>>

\* unexpected failures: the store is down under register and login, or an
\* error reaches the global handler
FailureNext ==
    \/ \E version \in {1, 2}, email \in AccountEmails, password \in Passwords,
          dbUp \in BOOLEAN :
            \/ Register(version, email, password, dbUp)
            \/ Login(version, email, password, dbUp)
    \/ \E version \in {1, 2}, env \in Envs, err \in Errors :
            HandleError(version, env, err)

FailureSpec == AccountInit /\ [][FailureNext]_vars

\* Requests with missing or malformed input next to well-formed ones, on
\* register, login, send-otp, verify-otp and the favorites routes
InputInit ==
    /\ now = 0
    /\ jwtSecret = ServerSecret
    /\ issued = {}
    /\ areq = NoAuthReq
    /\ aticks = 0
    /\ otps = <<>>
    /\ nextId = 1
    /\ sreq = [s \in 1 .. 1 |-> IdleSend]
    /\ vreq = [v \in 1 .. 1 |-> IdleVerify]
    /\ hist = [id \in 1 .. 1 |-> NoHist]
    /\ resp = NoResp
    /\ LimitIdle
    /\ users = [id \in {"u1"} |-> NewUser]
    /\ presp = NoProfileResp
    /\ disk = {}
    /\ ureq = IdleUpload
    /\ sniffed = {}
    /\ nextFile = 1
    /\ freq = [f \in 1 .. 1 |-> IdleFavorite]
    /\ ServiceIdle

InputNext ==
    \/ \E version \in {1, 2}, email \in {"a@b.com", BadEmail},
          password \in {p \in Passwords : p.head <= 1} :
            \/ Register(version, email, password, TRUE)
            \/ Login(version, email, password, TRUE)
    \/ SendOtpInvalid(BadEmail)
    \/ \E v \in VerifySlots, otp \in OtpCodes : VerifyOtpFindOne(v, BadEmail, otp)
    \/ \E f \in DOMAIN freq, route \in {"add", "remove"},
          postId \in {NoPostId, ObjectIdToString("p1")} :
            FavoriteFind(f, route, "u1", postId)
    \/ \E f \in DOMAIN freq : FavoriteSave(f)

InputSpec == InputInit /\ [][InputNext]_vars

----------------------------------------------------------------------------
(* The OTP challenge: claims *)

Verified == "OTP verified successfully"
Exhausted == "Too many attempts"
Expired == "OTP expired"

\* comparisons made so far against a document of the store: each one is
\* either still waiting for its save() or was answered Invalid or Verified
Compares(id) ==
    hist[id].invalid + hist[id].verified
      + Cardinality({v \in VerifySlots : vreq[v].pc = "save" /\ vreq[v].record.id = id})

\* C1: once three verify-otp requests on a record were answered 'Invalid
\* OTP', a request that then finds this record is not compared but rejected
\* ('Too many attempts', or 'OTP expired' once the expiry has passed), and
\* the record is not marked used.
C1_ExhaustedAfterThreeWrong ==
    [][/\ (resp'.route = "verify-otp" /\ resp'.exhaustedAtFind)
            => resp'.res \in {Exhausted, Expired}
       /\ \A id \in (DOMAIN otps) \cap (DOMAIN otps') :
            (hist[id].invalid >= MaxAttempts /\ ~otps[id].used)
               => ~otps'[id].used]_vars

\* C2: a verify-otp request that starts after send-otp has stored a newer
\* record for the email is never answered Verified on an older record.
C2_OldCodeNeverVerifies ==
    ~(resp.route = "verify-otp" /\ resp.res = Verified /\ resp.newerAtFind)

\* C3: the store holds at most one record with used = false per email.
C3_AtMostOneUnused ==
    \A email \in Emails : Cardinality(UnusedOf(email)) <= 1

\* C4: at most three candidates are ever compared against a record, and its
\* stored attempts value never decreases and never exceeds 3.
C4_AttemptsMonotonicCapped ==
    [][\A id \in (DOMAIN otps) \cap (DOMAIN otps') :
          /\ otps'[id].attempts >= otps[id].attempts
          /\ otps'[id].attempts <= MaxAttempts
          /\ Compares(id)' <= MaxAttempts]_vars

\* C5: at most one verify-otp request is answered Verified per record.
C5_VerifiedAtMostOnce ==
    \A id \in DOMAIN hist : hist[id].verified <= 1

\* C6: a request that starts after a record was answered Verified, Expired
\* or Exhausted is never answered Verified on that record.
C6_TerminalNeverVerifies ==
    ~(resp.route = "verify-otp" /\ resp.res = Verified /\ resp.terminalAtFind)

C26_VerifyOrder ==
    [][/\ \A v \in VerifySlots :
            (vreq[v].pc = "idle" /\ vreq'[v].pc = "save") =>
               LET id == vreq'[v].record.id
               IN  /\ id \in UnusedOf(vreq'[v].record.email)
                   /\ ~(otps[id].expiresAt < now)
                   /\ otps[id].attempts < MaxAttempts
                   /\ otps' = otps
       /\ (resp' # resp /\ resp'.route = "verify-otp" /\ vreq' = vreq) =>
            /\ otps' = otps
            /\ resp'.res \in {"OTP not found", "OTP expired", "Too many attempts"}
            /\ resp'.res = "OTP not found" => UnusedOf(resp'.email) = {}
            /\ resp'.res = "OTP expired" =>
                  /\ resp'.id \in UnusedOf(resp'.email)
                  /\ otps[resp'.id].expiresAt < now
            /\ resp'.res = "Too many attempts" =>
                  /\ resp'.id \in UnusedOf(resp'.email)
                  /\ ~(otps[resp'.id].expiresAt < now)
                  /\ otps[resp'.id].attempts >= MaxAttempts]_vars

\* a record that is both past its expiry and out of attempts was answered
\* 'OTP expired'
C26_Witness ==
    /\ resp.route = "verify-otp" /\ resp.res = "OTP expired"
    /\ resp.id \in DOMAIN otps
    /\ otps[resp.id].attempts >= MaxAttempts
    /\ otps[resp.id].expiresAt < now

----------------------------------------------------------------------------
(* The auth middleware: claims *)

\* the token is signed with this algorithm under this key
SignedWith(tok, alg, key) ==
    tok.parts = 3 /\ tok.alg = alg /\ tok.sig = HmacSign(alg, key, tok.payload)

\* the expiry of the token has passed at time t
PastExpiry(tok, t) == tok.payload.exp # NoExp /\ t \div 1000 >= tok.payload.exp

\* the header reads 'Bearer <token>'
BearerToken(h) == h.present /\ h.scheme = "Bearer" /\ h.gap = 1 /\ h.cred # NoToken

\* what the first definition answers to a header that does start with
\* 'Bearer ' and carries a token, given a configured secret
VerifiedOutcome(h, out, t) ==
    IF ~SignedWith(h.cred, "HS256", jwtSecret)
    THEN out.code = "TOKEN_INVALID" /\ out.status = 401 /\ ~out.next
    ELSE IF PastExpiry(h.cred, t)
    THEN out.code = "TOKEN_EXPIRED" /\ out.status = 401 /\ ~out.next
    ELSE out.next /\ out.code = "" /\ out.user = h.cred.payload

\* the part of C8 that does not depend on the configuration
HeaderOutcome(h, out) ==
    /\ (~h.present \/ h.scheme # "Bearer" \/ h.gap = 0)
          => (out.code = "AUTH_HEADER_MISSING" /\ out.status = 401 /\ ~out.next)
    /\ (h.present /\ h.scheme = "Bearer" /\ h.gap >= 1 /\ ~BearerToken(h))
          => (out.code = "TOKEN_MISSING" /\ out.status = 401 /\ ~out.next)

C9_OnlyPinnedAlgorithmAndSecret ==
    areq.def # 0 =>
        LET tok == areq.header.cred
        IN  /\ areq.out.next =>
                  /\ jwtSecret # NoSecret
                  /\ SignedWith(tok, "HS256", jwtSecret)
                  /\ ~PastExpiry(tok, areq.time)
            /\ (BearerToken(areq.header) /\ tok.parts = 3
                  /\ ~SignedWith(tok, "HS256", jwtSecret)) =>
                  /\ ~areq.out.next
                  /\ jwtSecret # NoSecret => areq.out.code = "TOKEN_INVALID"

\* the request carried 'Bearer <token>' with a token signAccessToken made
OfIssued(i) ==
    /\ i.by = "signAccessToken"
    /\ areq.def = 1
    /\ areq.header = Header("Bearer", 1, i.token)

\* C10 as stated: accepted at every time before issue time + T, answered
\* TOKEN_EXPIRED at every time after it.
C10_AcceptedUntilTtl ==
    \A i \in issued :
        OfIssued(i) =>
            /\ areq.time < i.at + AccessTtlSec * 1000 => areq.out.next
            /\ areq.time > i.at + AccessTtlSec * 1000
                  => areq.out.code = "TOKEN_EXPIRED"

\* C10, amended: accepted at every time up to issue time + T - 1 s,
\* answered TOKEN_EXPIRED at every time from issue time + T on; in between
\* it is accepted exactly while the whole second of the clock is below the
\* whole second of the issue time plus T.
C10_AcceptedUntilTtlInSeconds ==
    \A i \in issued :
        OfIssued(i) =>
            /\ areq.time <= i.at + (AccessTtlSec - 1) * 1000 => areq.out.next
            /\ areq.time >= i.at + AccessTtlSec * 1000
                  => areq.out.code = "TOKEN_EXPIRED"
            /\ areq.out.next <=>
                  areq.time \div 1000 < i.at \div 1000 + AccessTtlSec
            /\ areq.out.next \/ areq.out.code = "TOKEN_EXPIRED"

\* an access token was answered TOKEN_EXPIRED less than T after its issue
C10_Witness ==
    \E i \in issued :
        /\ OfIssued(i)
        /\ areq.out.code = "TOKEN_EXPIRED"
        /\ areq.time < i.at + AccessTtlSec * 1000

----------------------------------------------------------------------------
(* Token configuration and identity: claims *)

\* C11: with no JWT secret configured no token is handed out and no request
\* passes the auth middleware.
C11_NoSecretNoTokens ==
    jwtSecret = NoSecret =>
        /\ issued = {}
        /\ areq.def # 0 => ~areq.out.next

\* C12: a token handed out by login or register and presented before its
\* expiry as 'Bearer <token>' is accepted, and req.user.id and req.user.role
\* are the id and the role of the account it was handed out to.
C12_TokenIdentityRoundTrip ==
    \A i \in issued :
        (/\ areq.def # 0
         /\ areq.header = Header("Bearer", 1, i.token)
         /\ ~PastExpiry(i.token, areq.time)) =>
            /\ areq.out.next
            /\ areq.out.user.id = i.user.id
            /\ areq.out.user.role = i.user.role

----------------------------------------------------------------------------
(* The rate limiters: claims *)

\* C13: of the requests of one key inside one window of a limiter the first
\* max are admitted and every later one is rejected, with a positive
\* retry-after that does not exceed the time left in the window; the first
\* request after the window is admitted again.
C13_FixedWindow ==
    [][lreq'.n # lreq.n =>
         \A m \in lreq'.met :
            LET g == admitted[m.limiter][m.key]
                inWindow == g.seen > 0 /\ now < g.from + m.windowMs
            IN  IF inWindow /\ g.seen >= m.max
                THEN /\ ~m.admitted
                     /\ m.retryAfter > 0
                     /\ m.retryAfter * 1000 <= g.from + m.windowMs - now
                ELSE m.admitted]_vars

\* C14: for every limiter, key and window the requests admitted, over all
\* worker processes, never exceed the max of the limiter.
C14_AdmittedWithinMax ==
    \A l \in DOMAIN admitted : \A k \in LimitKeys :
        \A l2 \in Limiters : l2.name = l => admitted[l][k].ok <= l2.max

\* the limiters whose key generator prefers the identity
SecureLimiters == {l.name : l \in {m \in Limiters : m.keyGenerator = "secure"}}

\* C15: a limiter with the identity-aware key generator counts a request
\* that carries a valid token under the key of that identity, and any other
\* request under the masked address of the caller.
C15_CountedUnderIdentity ==
    \A m \in lreq.met :
        m.limiter \in SecureLimiters =>
            IF lreq.identity # ""
            THEN m.key = [kind |-> "user", id |-> lreq.identity]
            ELSE m.key.kind = "ip"

\* C16: a request that reaches token verification or a handler was counted
\* and admitted by a limiter, and a request a limiter rejects reaches
\* neither token verification nor a handler.
C16_LimitedBeforeVerified ==
    /\ (lreq.verified \/ lreq.handler) => \E m \in lreq.met : m.admitted
    /\ (\E m \in lreq.met : ~m.admitted) => (~lreq.verified /\ ~lreq.handler)

----------------------------------------------------------------------------
(* Uploads: claims *)

\* an allowed image extension, and the Content-Type that goes with it, on
\* content that is no allow-listed image
Disguised(file) ==
    /\ fileFilter(file)
    /\ file.mimetype = "image/png"
    /\ fileTypeFromFile(file) \notin ALLOWED_IMAGE_MIMES

\* C17: an upload with an image extension and other content is answered
\* with a validation error (400), leaves the avatar fields as they were, and
\* leaves no file of the request in the upload directory.
C17_DisguisedUploadRejected ==
    [][(presp' # presp /\ presp'.route = "upload" /\ Disguised(presp'.file)
          /\ presp'.file.size <= MAX_FILE_SIZE) =>
          /\ presp'.status = 400
          /\ users' = users
          /\ presp'.file \notin disk']_vars

\* C18: when an upload request ends without success, the file it staged is
\* not on disk.
C18_NoFileLeftOnFailure ==
    (presp.route = "upload" /\ presp.status # 200) => presp.file \notin disk

\* C19: every avatar field is empty or the path of a file that has passed
\* content sniffing.
C19_AvatarOnlyAfterSniffing ==
    \A id \in DOMAIN users :
        users[id].avatar = NoAvatar \/ users[id].avatar \in sniffed

----------------------------------------------------------------------------
(* Favorites: claims *)

\* the posts of a favorites list
Favorited(favorites) == {favorites[i] : i \in 1 .. Len(favorites)}

\* C20: for a user and an existing post: adding a post not in the list
\* succeeds and inserts it; adding one that is in the list gives 409 and
\* changes nothing; removing one that is not in the list gives 409 and
\* changes nothing; removing one that is in the list removes that post and
\* no other.
C20_FavoritesAddRemove ==
    [][(/\ presp'.seq # presp.seq
        /\ isMongoId(presp'.postId)
        /\ presp'.user \in DOMAIN users
        /\ CastObjectId(presp'.postId) \in Posts) =>
          LET post == CastObjectId(presp'.postId)
              before == users[presp'.user].favorites
              after == users'[presp'.user].favorites
          IN  IF presp'.route = "add"
              THEN IF post \notin Favorited(before)
                   THEN presp'.status = 200 /\ after = Append(before, post)
                   ELSE presp'.status = 409 /\ after = before
              ELSE IF post \notin Favorited(before)
                   THEN presp'.status = 409 /\ after = before
                   ELSE /\ presp'.status = 200
                        /\ post \notin Favorited(after)
                        /\ Favorited(after) = Favorited(before) \ {post}]_vars

----------------------------------------------------------------------------
(* Register and login: claims *)

\* C22: after register(e, p) has succeeded, login(e, p') succeeds if and
\* only if p' = p, and the credential stored for an account is never the
\* plaintext password: it is the password hashed exactly once.
C22_LoginIffSamePassword ==
    /\ \A e \in DOMAIN accounts :
          /\ accounts[e].credential # PasswordString(accounts[e].plain)
          /\ accounts[e].credential.layers = 1
    /\ (/\ reply.route = "login"
        /\ reply.status \in {200, 400, 401}
        /\ isEmail(reply.email)
        /\ reply.password # NoPassword
        /\ LookupEmail(reply.version, reply.email) \in DOMAIN accounts)
       => LET e == LookupEmail(reply.version, reply.email)
          IN  (reply.status = 200) <=> (reply.password = accounts[e].plain)

\* C23: the login response (status and body) for an email that has no
\* account is the same as for an existing account with a wrong password.
C23_LoginUniformResponse ==
    \A version \in {1, 2}, password \in Passwords, dbUp \in BOOLEAN :
      \A known, unknown \in AccountEmails :
        (/\ Deployed(version)
         /\ isEmail(known) /\ isEmail(unknown)
         /\ LookupEmail(version, known) \in DOMAIN accounts
         /\ LookupEmail(version, unknown) \notin DOMAIN accounts
         /\ password # accounts[LookupEmail(version, known)].plain)
        => LET wrong == LoginResponse(version, known, password, dbUp)
               absent == LoginResponse(version, unknown, password, dbUp)
           IN  /\ wrong.status = absent.status
               /\ wrong.message = absent.message
               /\ wrong.cookie = absent.cookie

\* C28: a register request that ends in an error response (validation
\* failure, email already in use, server error) leaves the user store
\* unchanged.
C28_FailedRegisterCreatesNothing ==
    [][(/\ reply'.seq # reply.seq
        /\ reply'.route = "register"
        /\ reply'.status \notin {200, 201}) => accounts' = accounts]_vars

\* the messages of the responses that report a validation failure
ValidationMessages ==
    {"Validation failed", "Invalid input", "Please fill in all fields",
     "Please include a valid email address"}

\* C24: on register, login, send-otp, verify-otp and the favorites
\* mutations a request with missing or malformed input is answered with a
\* validation error, without a read or write of the store and without use of
\* the token secret.  (The OTP requests of InputSpec all carry a malformed
\* email.)
C24_ValidationShortCircuits ==
    [][/\ (/\ reply'.seq # reply.seq
           /\ reply'.route \in {"register", "login"}
           /\ (~isEmail(reply'.email) \/ reply'.password = NoPassword))
          => /\ reply'.status = 400
             /\ reply'.message \in ValidationMessages
             /\ reply'.touched = {}
             /\ accounts' = accounts
       /\ (resp' # resp /\ resp'.route \in {"send-otp", "verify-otp"})
          => /\ resp'.res \in ValidationMessages
             /\ otps' = otps
       /\ (presp'.seq # presp.seq /\ ~isMongoId(presp'.postId))
          => /\ presp'.status = 400
             /\ users' = users]_vars

\* the fixed messages of the responses to an unexpected failure
GenericMessages == {"Server error", "Internal Server Error"}

\* C25: in production the body of every response to an unexpected failure
\* (store unavailable, thrown exception, missing configuration) carries a
\* fixed generic message and neither the message nor the stack trace of the
\* underlying error.
C25_GenericErrorBody ==
    /\ (reply.route = "error" /\ reply.env = "production"
        /\ reply.err.status \notin 400 .. 499)
       => (reply.message \in GenericMessages /\ reply.stack = NoStack)
    /\ (reply.route \in {"register", "login"} /\ reply.status = 500)
       => (reply.message \in GenericMessages /\ reply.stack = NoStack)

\* C27: no byte of a file is written to disk for an upload request that
\* fails token verification, that exceeds the upload quota, or whose file
\* name has an extension outside the allow-list; a stage that rejects stops
\* the later stages.
C27_NothingStagedForRejected ==
    [][lreq'.n # lreq.n =>
         /\ (\/ lreq'.status # 200
             \/ ~lreq'.verified
             \/ \E m \in lreq'.met : ~m.admitted) =>
               (disk' = disk /\ ureq' = ureq /\ sniffed' = sniffed /\ users' = users)
         /\ \A f \in disk' \ disk : fileFilter(f)]_vars

----------------------------------------------------------------------------
(* Admin and notification routes: claims *)

\* C29: every request to a route behind userAuth receives exactly one
\* response, never none and never two, also when the token is rejected,
\* when the lookup finds no user and when the lookup fails.  A request is
\* over when nothing of it remains scheduled.
C29_ExactlyOneResponse ==
    /\ call.responses <= 1
    /\ call.pc \in {"done", "abandoned"} => call.responses = 1

\* C30: an authenticated DELETE /api/notifications/clear-all is handled by
\* the clear-all handler and removes all notifications of the caller and
\* none of another user; the earlier DELETE /:id route does not take it.
C30_ClearAllDispatched ==
    [][(call' # call /\ call'.path = Segment("clear-all", 0)) =>
          /\ call'.route = "DELETE /clear-all"
          /\ call'.status = 200
          /\ notifications' = {n \in notifications : n.userId # call'.user}]_vars

====
